---- MODULE Spec2Model ----
(***************************************************************************)
(* Model of rsl_rl/utils/wandb_utils.py: WandbSummaryWriter, a tensorboard *)
(* SummaryWriter that mirrors what it is given to a wandb session.         *)
(*                                                                         *)
(* Strings that the code takes apart (paths, file names) are sequences of  *)
(* one-character strings.  Every call the writer makes on a collaborator   *)
(* (the base SummaryWriter, the wandb client) is recorded, in order, in    *)
(* the trace of the running operation; a collaborator may raise at any     *)
(* call.                                                                   *)
(***************************************************************************)
EXTENDS Integers, Sequences, FiniteSets, TLC

VARIABLES
    phase,        \* "Uninitialized", "Active", "Stopped" or "Failed" (__init__ raised)
    config,       \* wandb.config: key -> {} (absent) or {value}
    video_files,  \* self.video_files
    fs,           \* the directory tree add_video_files looks at
    op,           \* the last event: a writer operation (name, arguments, outcome)
                  \* or a change of the directory tree (name "fs")
    calls,        \* the collaborator calls the last operation made, in order
    uploads,      \* every path a wandb.Video was built for, over the writer's life
    rescan        \* the last operation is an add_video_files that came right after
                  \* one of the same directory that returned, the tree untouched between

vars == <<phase, config, video_files, fs, op, calls, uploads, rescan>>

\* ------------------------------------------------------------------ bounds

\* Collaborator calls of one operation that may be chosen to raise.
MaxCalls == 5
\* global_step / step range over None and 0..MaxStep.
MaxStep == 1
\* Files in the video directory tree at one time.
MaxFiles == 3

None == "None"
SEP == "/"

\* ------------------------------------------------------------------ strings

Last(s) == s[Len(s)]

\* str.endswith
EndsWith(s, suffix) ==
    /\ Len(s) >= Len(suffix)
    /\ SubSeq(s, Len(s) - Len(suffix) + 1, Len(s)) = suffix

\* str.rfind(sep) + 1
RFindSep(p) ==
    LET hits == {i \in 1..Len(p) : p[i] = SEP}
    IN  IF hits = {} THEN 0 ELSE CHOOSE i \in hits : \A j \in hits : j <= i

RECURSIVE RStripSep(_)
\* str.rstrip(sep)
RStripSep(p) ==
    IF p # <<>> /\ Last(p) = SEP THEN RStripSep(SubSeq(p, 1, Len(p) - 1)) ELSE p

AllSep(p) == \A i \in 1..Len(p) : p[i] = SEP

\* posixpath.split: (head, tail), cut after the last separator; the head loses
\* its trailing separators unless it is made of separators only.
PathSplitMutStripFirst(p) ==
    LET q    == RStripSep(p)
        i    == RFindSep(q)
        head == SubSeq(q, 1, i)
    IN  <<IF head # <<>> /\ ~AllSep(head) THEN RStripSep(head) ELSE head,
          SubSeq(q, i + 1, Len(q))>>

PathSplit(p) ==
    LET i    == RFindSep(p)
        head == SubSeq(p, 1, i)
    IN  <<IF head # <<>> /\ ~AllSep(head) THEN RStripSep(head) ELSE head,
          SubSeq(p, i + 1, Len(p))>>

\* os.path.dirname
DirName(p) == PathSplit(p)[1]

\* os.path.join(a, b)
PathJoin(a, b) ==
    IF b # <<>> /\ b[1] = SEP THEN b
    ELSE IF a = <<>> \/ Last(a) = SEP THEN a \o b
    ELSE a \o <<SEP>> \o b


\* ------------------------------------------------------------------ calls

Call(fn, args, raised) == [fn |-> fn, args |-> args, raised |-> raised]

Returned == [exc |-> None, about |-> None]
Raised(exc, about) == [exc |-> exc, about |-> about]

\* The exception a raising collaborator call gives: the base writer's or the
\* wandb client's own, named after the call.
LocalFns == {"SummaryWriter.__init__", "SummaryWriter.add_scalar", "SummaryWriter.close"}
ErrorOf(fn) == Raised(IF fn \in LocalFns THEN "LocalError" ELSE "RemoteError", fn)

\* wandb.config: a mapping, here key -> {} or {value}.
ConfigKeys == {"log_dir", "runner_cfg", "policy_cfg", "alg_cfg", "env_cfg"}
EmptyConfig == [k \in ConfigKeys |-> {}]
\* wandb.config.update({key: value})
ConfigUpdate(cfg, key, value) == [cfg EXCEPT ![key] = {value}]
KeysOf(cfg) == {k \in ConfigKeys : cfg[k] # {}}

\* A mapping (dict): a function on the keys it has.
Has(d, key) == key \in DOMAIN d

\* ------------------------------------------------------------------ __init__

\* What a handler leaves behind.
Result(outcome, trace, cfg, vf, ups) ==
    [outcome |-> outcome, calls |-> trace, config |-> cfg,
     video_files |-> vf, uploads |-> ups]

\* cfg["wandb_project"]: the value, or the KeyError of lines 28-31.
LookupProjectMutDefault(cfg) ==
    [found |-> TRUE,
     value |-> IF Has(cfg, "wandb_project") THEN cfg["wandb_project"] ELSE None]

LookupProject(cfg) ==
    [found |-> Has(cfg, "wandb_project"),
     value |-> IF Has(cfg, "wandb_project") THEN cfg["wandb_project"] ELSE None]

\* cfg["wandb_entity"], None on KeyError.
LookupEntity(cfg) == IF Has(cfg, "wandb_entity") THEN cfg["wandb_entity"] ELSE None

\* os.path.split(log_dir)[-1]
RunName(log_dir) == PathSplit(log_dir)[2]

\* WandbSummaryWriter.__init__(log_dir, flush_secs, cfg), from the point where
\* the base class's constructor has returned (before that none of the writer's
\* own code has run).  Call i of the trace raises iff i \in fails.
Construct(log_dir, flush_secs, cfg, fails) ==
    LET c1 == Call("SummaryWriter.__init__", <<log_dir, flush_secs>>, FALSE)
        project == LookupProject(cfg)
    IN  IF ~project.found
        THEN Result(Raised("KeyError", "wandb_project"), <<c1>>, EmptyConfig, <<>>, <<>>)
        ELSE
            LET c2 == Call("wandb.init",
                           <<project.value, LookupEntity(cfg), RunName(log_dir)>>,
                           2 \in fails)
                c3 == Call("wandb.config.update", <<"log_dir", log_dir>>, 3 \in fails)
            IN  IF c2.raised
                THEN Result(ErrorOf(c2.fn), <<c1, c2>>, EmptyConfig, <<>>, <<>>)
                ELSE IF c3.raised
                THEN Result(ErrorOf(c3.fn), <<c1, c2, c3>>, EmptyConfig, <<>>, <<>>)
                ELSE Result(Returned, <<c1, c2, c3>>,
                            ConfigUpdate(EmptyConfig, "log_dir", log_dir), <<>>, <<>>)

\* ------------------------------------------------------------------ inputs

LogDirs ==
    { <<"x">>, <<"r", "/", "x">>, <<"r", "/">>, <<"/", "x">>,
      <<"r", "/", "/", "x">>, <<"/">> }
FlushSecs == {10}
CfgKeys == {"wandb_project", "wandb_entity", "seed"}
CfgValues == {"a", "b"}
Cfgs == UNION {[S -> CfgValues] : S \in SUBSET CfgKeys}
\* The calls of an operation making at most n that are chosen to raise: call i
\* of its trace raises iff i is in the set.  Only store_config goes on after a
\* call raised, and then for one call more, so two choices are enough.
FailSets(n) == {f \in SUBSET (1..n) : Cardinality(f) <= 2}
\* The same for an operation that a raising call ends: the call that raises, if any.
FirstFail(n) == {{}} \cup {{i} : i \in 1..n}

\* The file system: directory v with the files top, and its subdirectory v/s
\* (when hasSub) with the files sub.
NoFiles == [top |-> {}, hasSub |-> FALSE, sub |-> {}]

InitUninit ==
    /\ phase = "Uninitialized"
    /\ config = EmptyConfig
    /\ video_files = <<>>
    /\ fs = NoFiles
    /\ op = [name |-> None, args |-> <<>>, outcome |-> Returned]
    /\ calls = <<>>
    /\ uploads = <<>>
    /\ rescan = FALSE

Apply(name, args, r) ==
    /\ op' = [name |-> name, args |-> args, outcome |-> r.outcome]
    /\ calls' = r.calls
    /\ config' = r.config
    /\ video_files' = r.video_files
    /\ uploads' = r.uploads
    /\ rescan' = (/\ name = "add_video_files"
                  /\ op.name = "add_video_files"
                  /\ op.outcome = Returned
                  /\ op.args[1] = args[1])

Initialize ==
    /\ phase = "Uninitialized"
    /\ \E log_dir \in LogDirs, flush_secs \in FlushSecs, cfg \in Cfgs, fails \in FirstFail(3) :
         LET r == Construct(log_dir, flush_secs, cfg, fails)
         IN  /\ Apply("__init__", <<log_dir, flush_secs, cfg>>, r)
             /\ phase' = IF r.outcome = Returned THEN "Active" ELSE "Failed"
    /\ UNCHANGED fs

SpecInit == InitUninit /\ [][Initialize]_vars

\* ------------------------------------------------------------------ store_config

\* An env_cfg: what env_cfg.to_dict() does ("absent": no such attribute,
\* "raises", or the mapping it returns) and what dataclasses.asdict(env_cfg)
\* does ("raises": not a dataclass instance, or the mapping it returns).
EnvDicts == {"E1", "E2"}
EnvCfgs ==
    {[to_dict |-> t, asdict |-> a] :
        t \in {"absent", "raises", "E1"}, a \in {"raises", "E1", "E2"}}

\* A train_cfg: a mapping that may lack "policy" or "algorithm".
TrainCfgs ==
    { [policy |-> "p1", algorithm |-> "a1", seed |-> "s1"],
      [policy |-> "p2", algorithm |-> "a1"],
      [policy |-> "p1"],
      [algorithm |-> "a1"] }

ToDictWorks(env_cfg) == env_cfg.to_dict \in EnvDicts
AsDictWorks(env_cfg) == env_cfg.asdict \in EnvDicts

\* Lines 48-51: the env_cfg step, its first call being call i of the trace.
\* The try block holds both env_cfg.to_dict() and the wandb.config.update of
\* its result, so `except Exception` is entered when either raises.
EnvCfgStep(r, env_cfg, i, fails) ==
    LET c4 == Call("wandb.config.update", <<"env_cfg", env_cfg.to_dict>>, i \in fails)
        tried == IF ToDictWorks(env_cfg) THEN Append(r.calls, c4) ELSE r.calls
        j == Len(tried) + 1
        c5 == Call("wandb.config.update", <<"env_cfg", env_cfg.asdict>>, j \in fails)
    IN  IF ToDictWorks(env_cfg) /\ ~c4.raised
        THEN Result(Returned, tried, ConfigUpdate(r.config, "env_cfg", env_cfg.to_dict),
                    r.video_files, r.uploads)
        ELSE IF ~AsDictWorks(env_cfg)
        THEN Result(Raised("TypeError", "asdict"), tried, r.config, r.video_files, r.uploads)
        ELSE IF c5.raised
        THEN Result(ErrorOf(c5.fn), Append(tried, c5), r.config, r.video_files, r.uploads)
        ELSE Result(Returned, Append(tried, c5),
                    ConfigUpdate(r.config, "env_cfg", env_cfg.asdict),
                    r.video_files, r.uploads)

\* One wandb.config.update({key: value}) appended to the run r, which goes on
\* only if the call returns.
UpdateStep(r, key, value, fails) ==
    LET c == Call("wandb.config.update", <<key, value>>, (Len(r.calls) + 1) \in fails)
    IN  IF c.raised
        THEN Result(ErrorOf(c.fn), Append(r.calls, c), r.config, r.video_files, r.uploads)
        ELSE Result(Returned, Append(r.calls, c), ConfigUpdate(r.config, key, value),
                    r.video_files, r.uploads)

\* train_cfg[key] and the update with it; KeyError when the key is missing.
SubCfgStep(r, train_cfg, key, target, fails) ==
    IF r.outcome # Returned THEN r
    ELSE IF ~Has(train_cfg, key)
    THEN Result(Raised("KeyError", key), r.calls, r.config, r.video_files, r.uploads)
    ELSE UpdateStep(r, target, train_cfg[key], fails)

\* WandbSummaryWriter.store_config(env_cfg, train_cfg)
StoreConfigRun(cfg, vf, ups, env_cfg, train_cfg, fails) ==
    LET r0 == Result(Returned, <<>>, cfg, vf, ups)
        r1 == UpdateStep(r0, "runner_cfg", train_cfg, fails)
        r2 == SubCfgStep(r1, train_cfg, "policy", "policy_cfg", fails)
        r3 == SubCfgStep(r2, train_cfg, "algorithm", "alg_cfg", fails)
    IN  IF r3.outcome # Returned THEN r3
        ELSE EnvCfgStep(r3, env_cfg, Len(r3.calls) + 1, fails)

\* ------------------------------------------------------------------ add_scalar, stop, save

\* global_step=None
NoStep == -1
Steps == {NoStep} \cup (0..MaxStep)
Tags == {"loss", "reward"}
ScalarValues == {15}

\* add_scalar mirroring to wandb before the local write.
AddScalarRunMutRemoteFirst(cfg, vf, ups, tag, value, step, walltime, new_style, fails) ==
    LET c1 == Call("wandb.log", <<tag, value, step>>, 1 \in fails)
        c2 == Call("SummaryWriter.add_scalar", <<tag, value, step, walltime, new_style>>,
                   2 \in fails)
    IN  IF c1.raised THEN Result(ErrorOf(c1.fn), <<c1>>, cfg, vf, ups)
        ELSE IF c2.raised THEN Result(ErrorOf(c2.fn), <<c1, c2>>, cfg, vf, ups)
        ELSE Result(Returned, <<c1, c2>>, cfg, vf, ups)

\* WandbSummaryWriter.add_scalar(tag, scalar_value, global_step, walltime, new_style)
AddScalarRun(cfg, vf, ups, tag, value, step, walltime, new_style, fails) ==
    LET c1 == Call("SummaryWriter.add_scalar", <<tag, value, step, walltime, new_style>>,
                   1 \in fails)
        c2 == Call("wandb.log", <<tag, value, step>>, 2 \in fails)
    IN  IF c1.raised THEN Result(ErrorOf(c1.fn), <<c1>>, cfg, vf, ups)
        ELSE IF c2.raised THEN Result(ErrorOf(c2.fn), <<c1, c2>>, cfg, vf, ups)
        ELSE Result(Returned, <<c1, c2>>, cfg, vf, ups)

\* One wandb call that is all an operation does.
SingleCall(cfg, vf, ups, c) ==
    Result(IF c.raised THEN ErrorOf(c.fn) ELSE Returned, <<c>>, cfg, vf, ups)

\* stop closing the local writer as well.
StopRunMutClosesLocal(cfg, vf, ups, fails) ==
    LET c1 == Call("SummaryWriter.close", <<>>, FALSE)
        c2 == Call("wandb.finish", <<>>, 1 \in fails)
    IN  Result(IF c2.raised THEN ErrorOf(c2.fn) ELSE Returned, <<c1, c2>>, cfg, vf, ups)

\* WandbSummaryWriter.stop()
StopRun(cfg, vf, ups, fails) ==
    SingleCall(cfg, vf, ups, Call("wandb.finish", <<>>, 1 \in fails))

\* WandbSummaryWriter.save_model(model_path, it)
SaveModelRun(cfg, vf, ups, model_path, it, fails) ==
    SingleCall(cfg, vf, ups, Call("wandb.save", <<model_path, DirName(model_path)>>, 1 \in fails))

\* WandbSummaryWriter.save_file(path)
SaveFileRun(cfg, vf, ups, path, fails) ==
    SingleCall(cfg, vf, ups, Call("wandb.save", <<path, DirName(path)>>, 1 \in fails))

Iterations == {100}
SavePaths == { <<"r", "/", "m">>, <<"m">>, <<"/", "m">>, <<"r", "/", "/", "m">> }

\* ------------------------------------------------------------------ add_video_files

\* The directory tree: directory v holds the files fs.top and, when fs.hasSub,
\* the subdirectory v/s holding the files fs.sub.  No other path exists.
TopDir == <<"v">>
SubName == <<"s">>
SubDir == PathJoin(TopDir, SubName)
ScanDirs == {TopDir, SubDir, <<"n">>}

MP4 == <<".", "m", "p", "4">>
FileNames ==
    { <<"a">> \o MP4, <<"b">> \o MP4, <<"a", "m", "p", "4">> }

\* fps=30
DefaultFps == 30
FpsValues == {DefaultFps, 2 * DefaultFps}

Range(seq) == {seq[k] : k \in 1..Len(seq)}

\* os.path.exists(log_dir)
PathExists(tree, log_dir) ==
    \/ log_dir = TopDir
    \/ log_dir = SubDir /\ tree.hasSub

\* The orders in which os.listdir may give the files of one directory.
Listings(files) ==
    {l \in [1..Cardinality(files) -> files] : \A a, b \in DOMAIN l : l[a] = l[b] => a = b}

\* os.walk(log_dir), top-down: the (root, files) pairs, given the listing of
\* each directory.
Walk(tree, log_dir, topList, subList) ==
    IF log_dir = TopDir
    THEN <<<<TopDir, topList>>>> \o
         (IF tree.hasSub THEN <<<<PathJoin(TopDir, SubName), subList>>>> ELSE <<>>)
    ELSE IF log_dir = SubDir /\ tree.hasSub THEN <<<<SubDir, subList>>>>
    ELSE <<>>

RECURSIVE Flatten(_)
\* The (root, video_file) pairs in the order the two loops of lines 83-84 visit them.
Flatten(walk) ==
    IF walk = <<>> THEN <<>>
    ELSE [k \in 1..Len(walk[1][2]) |-> <<walk[1][1], walk[1][2][k]>>] \o Flatten(Tail(walk))

\* Line 85: video_file.endswith(".mp4") and video_file not in self.video_files
IsNewVideoMutNoDedup(video_file, vf) == EndsWith(video_file, MP4)

IsNewVideoMutAnyMp4(video_file, vf) ==
    EndsWith(video_file, Tail(MP4)) /\ video_file \notin Range(vf)

IsNewVideo(video_file, vf) ==
    EndsWith(video_file, MP4) /\ video_file \notin Range(vf)

\* Lines 86-89 for one new video file: registered, then wandb.Video built on
\* its path, then logged under "Video".
UploadStep(r, root, video_file, step, fps, fails) ==
    LET vf == Append(r.video_files, video_file)
        video_path == PathJoin(root, video_file)
        n  == Len(r.calls)
        c1 == Call("wandb.Video", <<video_path, fps, "mp4">>, (n + 1) \in fails)
        c2 == Call("wandb.log", <<"Video", video_path, step>>, (n + 2) \in fails)
        ups == Append(r.uploads, video_path)
    IN  IF c1.raised
        THEN Result(ErrorOf(c1.fn), Append(r.calls, c1), r.config, vf, ups)
        ELSE IF c2.raised
        THEN Result(ErrorOf(c2.fn), r.calls \o <<c1, c2>>, r.config, vf, ups)
        ELSE Result(Returned, r.calls \o <<c1, c2>>, r.config, vf, ups)

RECURSIVE ScanFrom(_, _, _, _, _)
\* The loops of lines 83-89 over the entries still to visit.
ScanFrom(r, entries, step, fps, fails) ==
    IF entries = <<>> \/ r.outcome # Returned THEN r
    ELSE LET root == entries[1][1]
             video_file == entries[1][2]
         IN  ScanFrom(IF IsNewVideo(video_file, r.video_files)
                      THEN UploadStep(r, root, video_file, step, fps, fails)
                      ELSE r,
                      Tail(entries), step, fps, fails)

\* add_video_files listing the directory without looking whether it exists.
AddVideoFilesRunMutNoExistsCheck(cfg, vf, ups, tree, log_dir, step, fps, topList, subList, fails) ==
    IF PathExists(tree, log_dir)
    THEN ScanFrom(Result(Returned, <<>>, cfg, vf, ups),
                  Flatten(Walk(tree, log_dir, topList, subList)), step, fps, fails)
    ELSE Result(Raised("FileNotFoundError", "listdir"), <<>>, cfg, vf, ups)

\* WandbSummaryWriter.add_video_files(log_dir, step, fps)
AddVideoFilesRun(cfg, vf, ups, tree, log_dir, step, fps, topList, subList, fails) ==
    IF PathExists(tree, log_dir)
    THEN ScanFrom(Result(Returned, <<>>, cfg, vf, ups),
                  Flatten(Walk(tree, log_dir, topList, subList)), step, fps, fails)
    ELSE Result(Returned, <<>>, cfg, vf, ups)

\* ------------------------------------------------------------------ the writer's life

\* The state after WandbSummaryWriter("r/x", 10, {"wandb_project": "a"}) returned.
DefaultLogDir == <<"r", "/", "x">>
DefaultCfg == [wandb_project |-> "a"]

InitActive ==
    LET r == Construct(DefaultLogDir, 10, DefaultCfg, {})
    IN  /\ phase = "Active"
        /\ config = r.config
        /\ video_files = r.video_files
        /\ uploads = r.uploads
        /\ calls = r.calls
        /\ op = [name |-> "__init__", args |-> <<DefaultLogDir, 10, DefaultCfg>>,
                 outcome |-> r.outcome]
        /\ fs = NoFiles
        /\ rescan = FALSE

StoreConfig ==
    /\ phase = "Active"
    /\ \E env_cfg \in EnvCfgs, train_cfg \in TrainCfgs, fails \in FailSets(MaxCalls) :
         Apply("store_config", <<env_cfg, train_cfg>>,
               StoreConfigRun(config, video_files, uploads, env_cfg, train_cfg, fails))
    /\ UNCHANGED <<phase, fs>>

AddScalar ==
    /\ phase = "Active"
    /\ \E tag \in Tags, value \in ScalarValues, step \in Steps, fails \in FirstFail(2) :
         Apply("add_scalar", <<tag, value, step>>,
               AddScalarRun(config, video_files, uploads, tag, value, step, None, FALSE, fails))
    /\ UNCHANGED <<phase, fs>>

Stop ==
    /\ phase = "Active"
    /\ \E fails \in FirstFail(1) :
         Apply("stop", <<>>, StopRun(config, video_files, uploads, fails))
    /\ phase' = "Stopped"
    /\ UNCHANGED fs

SaveModel ==
    /\ phase = "Active"
    /\ \E model_path \in SavePaths, it \in Iterations, fails \in FirstFail(1) :
         Apply("save_model", <<model_path, it>>,
               SaveModelRun(config, video_files, uploads, model_path, it, fails))
    /\ UNCHANGED <<phase, fs>>

SaveFile ==
    /\ phase = "Active"
    /\ \E path \in SavePaths, fails \in FirstFail(1) :
         Apply("save_file", <<path>>, SaveFileRun(config, video_files, uploads, path, fails))
    /\ UNCHANGED <<phase, fs>>

\* The wandb calls a scan of `entries` can make at most.
ScanCalls(entries, vf) ==
    2 * Cardinality({k \in 1..Len(entries) : IsNewVideo(entries[k][2], vf)})

Min(a, b) == IF a < b THEN a ELSE b

AddVideoFiles ==
    /\ phase = "Active"
    /\ \E log_dir \in ScanDirs, step \in Steps, fps \in FpsValues :
       \E topList \in (IF log_dir = TopDir THEN Listings(fs.top) ELSE {<<>>}),
          subList \in (IF PathExists(fs, log_dir) /\ fs.hasSub
                       THEN Listings(fs.sub) ELSE {<<>>}) :
       \E fails \in FirstFail(Min(MaxCalls,
                      ScanCalls(Flatten(Walk(fs, log_dir, topList, subList)), video_files))) :
         /\ Apply("add_video_files", <<log_dir, step, fps>>,
                  AddVideoFilesRun(config, video_files, uploads, fs, log_dir, step, fps,
                                   topList, subList, fails))
    /\ UNCHANGED <<phase, fs>>

\* The training run writes into, or cleans, the video directory.
TreeChanged ==
    /\ op' = [name |-> "fs", args |-> <<>>, outcome |-> Returned]
    /\ calls' = <<>>
    /\ rescan' = FALSE
    /\ UNCHANGED <<phase, config, video_files, uploads>>

CreateFile ==
    /\ Cardinality(fs.top) + Cardinality(fs.sub) < MaxFiles
    /\ \E name \in FileNames :
         \/ fs' = [fs EXCEPT !.top = @ \cup {name}]
         \/ fs.hasSub /\ fs' = [fs EXCEPT !.sub = @ \cup {name}]
    /\ TreeChanged

MakeSubDir ==
    /\ ~fs.hasSub
    /\ fs' = [fs EXCEPT !.hasSub = TRUE]
    /\ TreeChanged

RemoveFile ==
    /\ \E name \in FileNames :
         \/ name \in fs.top /\ fs' = [fs EXCEPT !.top = @ \ {name}]
         \/ name \in fs.sub /\ fs' = [fs EXCEPT !.sub = @ \ {name}]
    /\ TreeChanged

Next ==
    \/ Initialize
    \/ StoreConfig
    \/ AddScalar
    \/ Stop
    \/ SaveModel
    \/ SaveFile
    \/ AddVideoFiles
    \/ CreateFile
    \/ MakeSubDir
    \/ RemoveFile

\* The writer's whole life.
Spec == InitUninit /\ [][Next]_vars

\* The writer without its video directory.
NextConfig == StoreConfig \/ AddScalar \/ Stop \/ SaveModel \/ SaveFile
SpecConfig == InitActive /\ [][NextConfig]_vars

\* The writer and its video directory, its configuration left as constructed.
NextVideo ==
    \/ AddVideoFiles \/ CreateFile \/ MakeSubDir \/ RemoveFile
    \/ AddScalar \/ Stop \/ SaveModel \/ SaveFile
SpecVideo == InitActive /\ [][NextVideo]_vars

\* ------------------------------------------------------------------ claims on __init__

IsRemote(c) == c.fn \notin LocalFns
CallsOf(fn) == {i \in 1..Len(calls) : calls[i].fn = fn}

IsLastComponent(n, p) ==
    /\ \A i \in 1..Len(n) : n[i] # SEP
    /\ Len(n) <= Len(p)
    /\ SubSeq(p, Len(p) - Len(n) + 1, Len(p)) = n
    /\ (Len(n) < Len(p) => p[Len(p) - Len(n)] = SEP)

FragmentKeys == {"runner_cfg", "policy_cfg", "alg_cfg", "env_cfg"}

\* The mapping conversion of env_cfg: to_dict() when env_cfg has it and it
\* returns, the structural conversion otherwise.
MappingOf(env_cfg) ==
    IF ToDictWorks(env_cfg) THEN env_cfg.to_dict ELSE env_cfg.asdict

\* C3: after a store_config(env_cfg, train_cfg) that returned, the remote
\* configuration holds the keys it held plus exactly the four fragment keys,
\* runner_cfg = train_cfg, policy_cfg = train_cfg[policy], alg_cfg =
\* train_cfg[algorithm], env_cfg = the mapping conversion of env_cfg, and the
\* keys that were there keep their values.
C3_StoreConfigExact ==
    [][ (op'.name = "store_config" /\ op'.outcome = Returned) =>
          LET env_cfg   == op'.args[1]
              train_cfg == op'.args[2]
          IN  /\ KeysOf(config') = KeysOf(config) \cup FragmentKeys
              /\ \A k \in KeysOf(config) \ FragmentKeys : config'[k] = config[k]
              /\ config'["runner_cfg"] = {train_cfg}
              /\ config'["policy_cfg"] = {train_cfg["policy"]}
              /\ config'["alg_cfg"] = {train_cfg["algorithm"]}
              /\ config'["env_cfg"] = {MappingOf(env_cfg)} ]_vars

\* C6: an error raised by the remote client during a writer operation is never
\* caught: the raising call is the operation's last call and its error is what
\* the caller gets.
C6_RemoteErrorsPropagate ==
    \A i \in 1..Len(calls) :
        (IsRemote(calls[i]) /\ calls[i].raised) =>
            /\ i = Len(calls)
            /\ op.outcome = ErrorOf(calls[i].fn)

\* runner_cfg, policy_cfg and alg_cfg were pushed, in this order, and are in
\* the remote configuration.
ThreePushed(train_cfg) ==
    /\ Has(train_cfg, "policy") /\ Has(train_cfg, "algorithm")
    /\ Len(calls) >= 3
    /\ \A i \in 1..3 : calls[i].fn = "wandb.config.update" /\ ~calls[i].raised
    /\ calls[1].args[1] = "runner_cfg" /\ calls[1].args[2] = train_cfg
    /\ calls[2].args[1] = "policy_cfg" /\ calls[2].args[2] = train_cfg["policy"]
    /\ calls[3].args[1] = "alg_cfg" /\ calls[3].args[2] = train_cfg["algorithm"]
    /\ config["runner_cfg"] = {train_cfg}
    /\ config["policy_cfg"] = {train_cfg["policy"]}
    /\ config["alg_cfg"] = {train_cfg["algorithm"]}

\* The env_cfg step of the last store_config was entered.
EnvStepAttempted ==
    \/ op.outcome = Returned
    \/ op.outcome.exc = "TypeError"
    \/ \E i \in 1..Len(calls) :
         calls[i].fn = "wandb.config.update" /\ calls[i].args[1] = "env_cfg"

\* C7: in store_config, (a) when env_cfg lacks to_dict or to_dict raises, the
\* writer pushes env_cfg as the structural conversion of env_cfg; (b) a
\* conversion error reaches the caller only if both conversions fail; (c) in
\* every case runner_cfg, policy_cfg and alg_cfg were pushed before the env_cfg
\* step was entered.
C7_ConversionFallback ==
    op.name = "store_config" =>
        LET env_cfg   == op.args[1]
            train_cfg == op.args[2]
        IN  /\ EnvStepAttempted => ThreePushed(train_cfg)
            /\ (EnvStepAttempted /\ ~ToDictWorks(env_cfg) /\ AsDictWorks(env_cfg)) =>
                 /\ Len(calls) = 4
                 /\ calls[4].fn = "wandb.config.update"
                 /\ calls[4].args[1] = "env_cfg" /\ calls[4].args[2] = env_cfg.asdict
                 /\ ~calls[4].raised =>
                      op.outcome = Returned /\ config["env_cfg"] = {env_cfg.asdict}
            /\ op.outcome.exc = "TypeError" =>
                 ~ToDictWorks(env_cfg) /\ ~AsDictWorks(env_cfg)

\* ------------------------------------------------------------------ claims on add_scalar and stop

\* C4: an add_scalar(tag, value, step) makes one local write and then one
\* wandb.log of {tag: value} at the same step, in this order; if the local
\* write raises no wandb.log is made; if wandb.log raises, its error reaches
\* the caller, the local write done, and nothing is called after it.
C4_ScalarMirrored ==
    op.name = "add_scalar" =>
        LET tag == op.args[1]
            value == op.args[2]
            step == op.args[3]
        IN  /\ Len(calls) >= 1
            /\ calls[1].fn = "SummaryWriter.add_scalar"
            /\ calls[1].args[1] = tag /\ calls[1].args[2] = value /\ calls[1].args[3] = step
            /\ IF calls[1].raised
               THEN Len(calls) = 1 /\ op.outcome = ErrorOf("SummaryWriter.add_scalar")
               ELSE /\ Len(calls) = 2
                    /\ calls[2].fn = "wandb.log"
                    /\ calls[2].args = <<tag, value, step>>
                    /\ op.outcome = (IF calls[2].raised THEN ErrorOf("wandb.log") ELSE Returned)

C4_Witness ==
    /\ op.name = "add_scalar"
    /\ op.args = <<"loss", 15, 1>>
    /\ Len(calls) = 2
    /\ calls[2].raised
    /\ op.outcome = ErrorOf("wandb.log")

\* C8: a stop on an Active writer, whatever was called before, makes exactly
\* one wandb.finish and no other call (no local write), and leaves
\* video_files, the uploads made and the remote configuration as they were.
C8_StopFinishesOnce ==
    [][ (phase = "Active" /\ op'.name = "stop" /\ phase' = "Stopped") =>
          /\ Len(calls') = 1
          /\ calls'[1].fn = "wandb.finish"
          /\ video_files' = video_files
          /\ uploads' = uploads
          /\ config' = config ]_vars

C8_Witness ==
    /\ op.name = "stop"
    /\ phase = "Stopped"
    /\ Len(calls) = 1
    /\ video_files # <<>>

\* ------------------------------------------------------------------ claims on add_video_files

BaseName(p) == PathSplit(p)[2]
IsVideoName(f) == EndsWith(f, MP4)
NoDuplicates(seq) == \A a, b \in 1..Len(seq) : seq[a] = seq[b] => a = b
IsPrefix(a, b) == Len(a) <= Len(b) /\ SubSeq(b, 1, Len(a)) = a

\* The files below log_dir, as (directory, name) pairs in no order.
FilesBelow(tree, log_dir) ==
    IF log_dir = TopDir
    THEN {<<TopDir, f>> : f \in tree.top} \cup
         (IF tree.hasSub THEN {<<TopDir \o <<SEP>> \o SubName, f>> : f \in tree.sub} ELSE {})
    ELSE IF log_dir = TopDir \o <<SEP>> \o SubName /\ tree.hasSub
    THEN {<<log_dir, f>> : f \in tree.sub}
    ELSE {}

VideoPathsBelow(tree, log_dir) ==
    {e[1] \o <<SEP>> \o e[2] : e \in {x \in FilesBelow(tree, log_dir) : IsVideoName(x[2])}}
VideoNamesBelow(tree, log_dir) ==
    {e[2] : e \in {x \in FilesBelow(tree, log_dir) : IsVideoName(x[2])}}

\* The paths the last operation built a wandb.Video for, in order.
UploadedBy(trace) ==
    LET idx == {i \in 1..Len(trace) : trace[i].fn = "wandb.Video"}
    IN  {trace[i].args[1] : i \in idx}
NumUploads(trace) == Cardinality({i \in 1..Len(trace) : trace[i].fn = "wandb.Video"})

\* A step that is the second of two add_video_files in succession on the
\* same directory, the first having returned and the tree being unchanged.
SecondScan ==
    /\ op.name = "add_video_files" /\ op.outcome = Returned
    /\ op'.name = "add_video_files" /\ op'.args[1] = op.args[1]
    /\ rescan'

C9_MissingDirNoOp ==
    [][ (op'.name = "add_video_files" /\ ~PathExists(fs, op'.args[1]) /\ fs' = fs) =>
          /\ op'.outcome = Returned
          /\ calls' = <<>>
          /\ video_files' = video_files
          /\ uploads' = uploads
          /\ config' = config ]_vars

C9_Witness ==
    /\ op.name = "add_video_files"
    /\ ~PathExists(fs, op.args[1])
    /\ op.args[1] = TopDir \o <<SEP>> \o SubName
    /\ op.outcome = Returned
    /\ Len(video_files) = 2

\* C10: video_files only grows and only add_video_files changes it; it never
\* holds a name twice; over the writer's life at most one upload is attempted
\* per bare file name, for a file of that name that existed when it was
\* attempted; names not ending in .mp4 are never registered or uploaded.
C10_RegistryInvariant ==
    /\ [](/\ NoDuplicates(video_files)
          /\ NoDuplicates([k \in 1..Len(uploads) |-> BaseName(uploads[k])])
          /\ \A k \in 1..Len(video_files) : IsVideoName(video_files[k])
          /\ \A k \in 1..Len(uploads) : IsVideoName(uploads[k])
          /\ Len(uploads) = Len(video_files)
          /\ \A k \in 1..Len(uploads) : BaseName(uploads[k]) = video_files[k])
    /\ [][ /\ IsPrefix(video_files, video_files')
           /\ IsPrefix(uploads, uploads')
           /\ video_files' # video_files => op'.name = "add_video_files"
           /\ \A p \in Range(uploads') \ Range(uploads) :
                /\ p \in VideoPathsBelow(fs, op'.args[1])
                /\ p \in UploadedBy(calls') ]_vars

C10_Witness ==
    /\ op.name = "add_video_files" /\ op.args[1] = TopDir /\ op.outcome = Returned
    /\ fs.top = {<<"a">> \o MP4, <<"a", "m", "p", "4">>}
    /\ fs.sub = {<<"a">> \o MP4}
    /\ uploads = <<TopDir \o <<SEP>> \o SubName \o <<SEP, "a">> \o MP4>>
    /\ calls = <<>>
====
